---- MODULE Spec2Model ----
(***************************************************************************)
(* Model of the audio session engine of src/index.tsx (StudioApp): the     *)
(* React state, the Web Audio / MediaRecorder refs, the asynchronous       *)
(* handlers (each segment between two awaits is one action) and the        *)
(* localStorage record.                                                    *)
(*                                                                         *)
(* A handler invoked by a click reads the state of the latest render; the  *)
(* continuation of an async handler keeps the values its closure captured  *)
(* when it was invoked (isPlaying, selectedBeatUrl, recordedAudioUrl, the  *)
(* volumes, isRecording).                                                  *)
(***************************************************************************)
EXTENDS Integers, Sequences, FiniteSets, TLC

\* ------------------------------------------------------------------ bounds
\* handlePlay invocations (Play clicks and monitoring plays) in one behaviour
MaxPlays == 2
\* record-start invocations (Record clicks while not recording)
MaxRecs == 2
\* handlePlay and record-start invocations together
MaxCalls == 3

\* entries of BEATS the user picks among
MaxBeats == 1
\* requestAnimationFrame calls in one behaviour
MaxFrames == 4

\* ------------------------------------------------------- program constants
DefaultInstrumentalVolume == 70
DefaultVocalVolume == 100

Null == 0
Beats == 1..MaxBeats
\* volumes are in hundredths (the sliders step by 0.01 between 0 and 1)
\* decoded buffer durations
Durations == {1, 2}
\* the capture a previous page session left in the stored record
PrevCapture == MaxRecs + 1
\* object URLs: recorder r's blob gets URL r, the stored capture's blob PrevCapture
\* what the user types into the topic input
Topics == {"", "city"}
Verse == "verse"
Sorry == "Sorry, something went wrong while generating lyrics. Please try again."

VARIABLES
    selectedBeatUrl, isRecording, isPlaying, recordedAudioUrl, recordedAudioBase64,
    instrumentalVolume, vocalVolume, lyricTopic, generatedLyrics, isGenerating,
    isInitialized, mediaRecorderRef, recordedChunks,
    instrumentalSourceRef, instrumentalGainRef, vocalSourceRef, vocalGainRef,
    sources, plays, recs, storage, loadPc, fx, since,
    animationFrameIdRef, frames, lastFrameId, objectUrls

vars == <<selectedBeatUrl, isRecording, isPlaying, recordedAudioUrl, recordedAudioBase64,
          instrumentalVolume, vocalVolume, lyricTopic, generatedLyrics, isGenerating,
          isInitialized, mediaRecorderRef, recordedChunks,
          instrumentalSourceRef, instrumentalGainRef, vocalSourceRef, vocalGainRef,
          sources, plays, recs, storage, loadPc, fx, since,
          animationFrameIdRef, frames, lastFrameId, objectUrls>>

\* objectUrls: the object URLs URL.createObjectURL gave that were not revoked
\* the visualizer: the id animationFrameIdRef holds, the frame callbacks that are
\* scheduled and not yet run or cancelled, the last id requestAnimationFrame gave
vizVars == <<animationFrameIdRef, frames, lastFrameId>>
\* everything else
appVars == <<selectedBeatUrl, isRecording, isPlaying, recordedAudioUrl, recordedAudioBase64,
             instrumentalVolume, vocalVolume, lyricTopic, generatedLyrics, isGenerating,
             isInitialized, mediaRecorderRef, recordedChunks,
             instrumentalSourceRef, instrumentalGainRef, vocalSourceRef, vocalGainRef,
             sources, plays, recs, storage, loadPc, fx, since, objectUrls>>

sessionVars == <<selectedBeatUrl, recordedAudioBase64, instrumentalVolume, vocalVolume,
                 lyricTopic, generatedLyrics>>
mixVars == <<instrumentalVolume, vocalVolume>>
lyricVars == <<lyricTopic, generatedLyrics, isGenerating>>
refVars == <<instrumentalSourceRef, instrumentalGainRef, vocalSourceRef, vocalGainRef>>

\* ------------------------------------------------------------ localStorage
NoItem == [kind |-> "none"]
CorruptItem == [kind |-> "corrupt"]

\* the object literal of the save effect
ProjectState(beat, iv, vv, b64, topic, lyrics) ==
    [selectedBeatUrl |-> beat, instrumentalVolume |-> iv, vocalVolume |-> vv,
     recordedAudioBase64 |-> b64, lyricTopic |-> topic, generatedLyrics |-> lyrics]

\* JSON.stringify(projectState): the document text, as the list of its members
Stringify(ps) ==
    [kind |-> "doc",
     text |-> <<ps.selectedBeatUrl, ps.instrumentalVolume, ps.vocalVolume,
                ps.recordedAudioBase64, ps.lyricTopic, ps.generatedLyrics>>]

\* JSON.parse(savedProjectJSON)
Parse(item) ==
    [selectedBeatUrl |-> item.text[1], instrumentalVolume |-> item.text[2],
     vocalVolume |-> item.text[3], recordedAudioBase64 |-> item.text[4],
     lyricTopic |-> item.text[5], generatedLyrics |-> item.text[6]]

\* x || d for a number, and for a URL ('' is Null): 0 and '' are falsy
OrNum(x, d) == IF x = 0 THEN d ELSE x
\* x || '' for a string
OrStr(x) == IF x = "" THEN "" ELSE x

\* the session fields loadProject sets from a parsed document
LoadedFields(doc) ==
    ProjectState(OrNum(doc.selectedBeatUrl, Null),
                 OrNum(doc.instrumentalVolume, DefaultInstrumentalVolume),
                 OrNum(doc.vocalVolume, DefaultVocalVolume),
                 IF doc.recordedAudioBase64 # Null THEN doc.recordedAudioBase64 ELSE Null,
                 OrStr(doc.lyricTopic), OrStr(doc.generatedLyrics))

DefaultFields ==
    ProjectState(Null, DefaultInstrumentalVolume, DefaultVocalVolume, Null, "", "")

\* loadProject up to its await: the fields of the next render
LoadProject(item) ==
    IF item.kind = "doc" THEN LoadedFields(Parse(item)) ELSE DefaultFields

\* the gate of the save effect
HasContent(ps) == ps.selectedBeatUrl # Null \/ ps.recordedAudioBase64 # Null

\* mutant: the save effect gated on the selected beat alone
SaveEffectBeatOnly(old, new, item) ==
    IF old # new /\ new.selectedBeatUrl # Null THEN Stringify(new) ELSE item

\* mutant: the save effect without its gate
SaveEffectUngated(old, new, item) ==
    IF old # new THEN Stringify(new) ELSE item

\* the save effect, run after a render whose dependencies changed
SaveEffect(old, new, item) ==
    IF old # new /\ HasContent(new) THEN Stringify(new) ELSE item

Fields ==
    ProjectState(selectedBeatUrl, instrumentalVolume, vocalVolume, recordedAudioBase64,
                 lyricTopic, generatedLyrics)

\* ------------------------------------------------------------- audio graph
\* An AudioBufferSourceNode with its gain node. st: "created" (constructed, never
\* started), "playing", "stopping" (stop() called, its ended event not yet
\* delivered), "ended". by: the handlePlay invocation that constructed it;
\* startedBy: the one that called start() on it; onended: a handler is registered.
\* kind: "primary" or "monitor", the kind of that invocation.
NewSource(track, p, gain, dur) ==
    [track |-> track, st |-> "created", by |-> p, startedBy |-> 0, kind |-> "-",
     gain |-> gain, dur |-> dur, onended |-> FALSE]

\* a slot of the heap that holds no source
Free ==
    [track |-> "-", st |-> "free", by |-> 0, startedBy |-> 0, kind |-> "-",
     gain |-> 0, dur |-> 0, onended |-> FALSE]

\* every handlePlay builds at most two sources
SourceIds == 1..(2 * MaxPlays)

\* the slot createBufferSource() returns
NewId(srcs) == CHOOSE s \in SourceIds :
    /\ srcs[s].st = "free"
    /\ \A t \in SourceIds : srcs[t].st = "free" => s <= t

\* Garbage collection: a source that is neither referenced nor playing nor owed an
\* ended event is unreachable. Of a source that no longer plays, only its state,
\* its handler and its gain node can still be observed.
Collect(srcs, iRef, vRef) ==
    [s \in SourceIds |->
        IF srcs[s].st \in {"created", "ended"} /\ s \notin {iRef, vRef} THEN Free
        ELSE IF srcs[s].st = "ended"
             THEN [srcs[s] EXCEPT !.by = 0, !.startedBy = 0, !.kind = "-", !.dur = 0,
                                  !.onended = FALSE]
        ELSE IF srcs[s].st = "stopping"
             THEN [srcs[s] EXCEPT !.by = 0, !.startedBy = 0, !.kind = "-", !.dur = 0]
        ELSE srcs[s]]

\* AudioBufferSourceNode.stop() throws InvalidStateError on a source never started
StopThrows(srcs, ref) == ref # Null /\ srcs[ref].st = "created"

\* AudioBufferSourceNode.stop() on a source that was started
StopSource(srcs, ref) ==
    IF ref # Null /\ srcs[ref].st = "playing"
    THEN [srcs EXCEPT ![ref].st = "stopping"]
    ELSE srcs

\* AudioBufferSourceNode.start() throws InvalidStateError when called a second time
StartThrows(srcs, ref) == ref # Null /\ srcs[ref].st # "created"

StartSource(srcs, ref, p, kind) ==
    IF ref # Null
    THEN [srcs EXCEPT ![ref].st = "playing", ![ref].startedBy = p, ![ref].kind = kind]
    ELSE srcs

\* buffer?.duration ?? 0
DurationOf(srcs, ref) == IF ref = Null THEN 0 ELSE srcs[ref].dur

\* ---------------------------------------------------------------- recorder
\* One record-start invocation of handleRecordToggle and the MediaRecorder it
\* builds. pc: "asking" (awaiting getUserMedia), "recording", "stopping" (stop()
\* called, dataavailable/stop events pending), "encoding" (onstop awaiting
\* blobToBase64), "done" (denied, or finalized), "failed" (blobToBase64 rejected).
\* stream: the microphone stream is live. The other fields are what the closure
\* captured at the click.
NewRec ==
    [pc |-> "asking", stream |-> FALSE, beat |-> selectedBeatUrl,
     wasPlaying |-> isPlaying, url |-> recordedAudioUrl,
     iVol |-> instrumentalVolume, vVol |-> vocalVolume]

\* the closure is garbage once the invocation has passed its last use of it
SettledRec(pc, stream) ==
    [pc |-> pc, stream |-> stream, beat |-> Null, wasPlaying |-> FALSE,
     url |-> Null, iVol |-> 0, vVol |-> 0]

\* MediaRecorder.stop(); whenever isRecording is true the ref holds a recorder
\* that records
StopRecorder(rs, ref) ==
    IF ref # Null /\ rs[ref].pc = "recording"
    THEN [rs EXCEPT ![ref].pc = "stopping"]
    ELSE rs

\* ------------------------------------------------------------ handlePlay
\* One handlePlay invocation. pc: "resume" (awaiting audioContext.resume()),
\* "loadI" / "loadV" (awaiting loadAudio of the instrumental / the vocal),
\* "done" (returned, or the promise rejected). kind: "primary" (Play button) or
\* "monitor" (called by handleRecordToggle).
NewPlay(kind, beat, url, iVol, vVol, isRec) ==
    [pc |-> "resume", kind |-> kind, beat |-> beat, url |-> url,
     iVol |-> iVol, vVol |-> vVol, isRec |-> isRec]

\* a settled invocation holds nothing any more
SettledPlay ==
    [pc |-> "done", kind |-> "-", beat |-> Null, url |-> Null,
     iVol |-> 0, vVol |-> 0, isRec |-> FALSE]

\* the graph a handlePlay segment works on; error is the exception that ends the
\* segment: "state" (an InvalidStateError of start() or stop()), "decode" (loadAudio)
Graph ==
    [sources |-> sources, iRef |-> instrumentalSourceRef, iGain |-> instrumentalGainRef,
     vRef |-> vocalSourceRef, vGain |-> vocalGainRef, isPlaying |-> isPlaying,
     error |-> "none", pc |-> "done"]

\* lines 134-135: stop the sources of the previous graph
StopPrevious(g) ==
    IF StopThrows(g.sources, g.iRef) THEN [g EXCEPT !.error = "state"]
    ELSE LET s1 == StopSource(g.sources, g.iRef)
         IN IF StopThrows(s1, g.vRef) THEN [g EXCEPT !.sources = s1, !.error = "state"]
            ELSE [g EXCEPT !.sources = StopSource(s1, g.vRef)]

\* lines 143-148: build the instrumental source and its gain node
BuildInstrumental(g, p, pl, dur) ==
    LET id == NewId(g.sources)
    IN [g EXCEPT !.sources[id] = NewSource("i", p, pl.iVol, dur),
                 !.iRef = id, !.iGain = id]

\* lines 157-162: build the vocal source and its gain node
BuildVocal(g, p, pl, dur) ==
    LET id == NewId(g.sources)
    IN [g EXCEPT !.sources[id] = NewSource("v", p, pl.vVol, dur),
                 !.vRef = id, !.vGain = id]

\* mutant: the vocal source also when the durations are equal
LongestSourceOnTie(g) ==
    IF DurationOf(g.sources, g.vRef) >= DurationOf(g.sources, g.iRef)
    THEN g.vRef ELSE g.iRef

\* line 173: the vocal source iff it is strictly longer
LongestSource(g) ==
    IF DurationOf(g.sources, g.vRef) > DurationOf(g.sources, g.iRef)
    THEN g.vRef ELSE g.iRef

\* lines 168-179, both tracks ready: start the sources the refs hold
StartGraph(g, p, pl) ==
    IF StartThrows(g.sources, g.iRef) THEN [g EXCEPT !.error = "state"]
    ELSE LET s1 == StartSource(g.sources, g.iRef, p, pl.kind)
         IN IF StartThrows(s1, g.vRef) THEN [g EXCEPT !.sources = s1, !.error = "state"]
            ELSE LET s2 == StartSource(s1, g.vRef, p, pl.kind)
                     g2 == [g EXCEPT !.sources = s2]
                     longest == LongestSource(g2)
                 IN IF longest # Null
                    THEN [g2 EXCEPT !.sources[longest].onended = TRUE,
                                    !.isPlaying = TRUE]
                    ELSE [g2 EXCEPT !.isPlaying = IF pl.isRec THEN TRUE ELSE FALSE]

\* lines 154-166 from the await of the vocal on: wait for loadAudio, or go on
VocalPart(g, p, pl) ==
    IF pl.url # Null THEN [g EXCEPT !.pc = "loadV"] ELSE StartGraph(g, p, pl)

\* lines 134-152 after resume(): stop the previous sources, then load
AfterResume(g, p, pl) ==
    LET g1 == StopPrevious(g)
    IN IF g1.error # "none" THEN g1
       ELSE IF pl.beat # Null THEN [g1 EXCEPT !.pc = "loadI"]
       ELSE VocalPart(g1, p, pl)

\* ------------------------------------------------------------- handleStop
\* the state handleStop reads and writes
Ctl ==
    [isRecording |-> isRecording, isPlaying |-> isPlaying,
     isInitialized |-> isInitialized, mediaRecorderRef |-> mediaRecorderRef,
     recs |-> recs, sources |-> sources, iRef |-> instrumentalSourceRef,
     vRef |-> vocalSourceRef, threw |-> FALSE]

\* handleRecordToggle with isRecording true (lines 87-90)
ToggleOff(c) ==
    [c EXCEPT !.isInitialized = TRUE,
              !.recs = StopRecorder(c.recs, c.mediaRecorderRef),
              !.isRecording = FALSE]

\* handleStop (lines 182-189); c.isRecording is the value of the render
HandleStop(c) ==
    LET c1 == IF c.isRecording THEN ToggleOff(c) ELSE c
    IN IF StopThrows(c1.sources, c1.iRef) THEN [c1 EXCEPT !.threw = TRUE]
       ELSE LET s1 == StopSource(c1.sources, c1.iRef)
            IN IF StopThrows(s1, c1.vRef) THEN [c1 EXCEPT !.sources = s1, !.threw = TRUE]
               ELSE [c1 EXCEPT !.sources = StopSource(s1, c1.vRef),
                               !.isPlaying = FALSE]

\* ------------------------------------------------------------------- state
\* fx is the trace of the last step: alert (an alert was shown) and error (the
\* exception that ended it: "none", "state", "decode", "encode", "fetch").
\* since is a history variable: the last user action ("stop" for a Stop click and
\* "new" for a confirmed New that ran to their end, "other" for every other one
\* and before the first).
Fx(alert, error) == [alert |-> alert, error |-> error]

\* records a previous page session can have left under the key
InitialStorages ==
    {NoItem, CorruptItem,
     Stringify(ProjectState(1, 0, DefaultVocalVolume, Null, "", "")),
     Stringify(ProjectState(Null, DefaultInstrumentalVolume, DefaultVocalVolume,
                            PrevCapture, "city", Verse))}

\* the state after the first render and the mount effects (lines 30-58, 218-253)
Init ==
    \E item \in InitialStorages :
        LET f == LoadProject(item)
        IN /\ selectedBeatUrl = f.selectedBeatUrl
           /\ instrumentalVolume = f.instrumentalVolume
           /\ vocalVolume = f.vocalVolume
           /\ recordedAudioBase64 = f.recordedAudioBase64
           /\ lyricTopic = f.lyricTopic
           /\ generatedLyrics = f.generatedLyrics
           /\ storage = SaveEffect(DefaultFields, f, item)
           /\ loadPc = IF f.recordedAudioBase64 # Null THEN "url" ELSE "done"
           /\ fx = Fx(FALSE, "none")
           /\ since = "other"
           /\ isRecording = FALSE
           /\ isPlaying = FALSE
           /\ recordedAudioUrl = Null
           /\ isGenerating = FALSE
           /\ isInitialized = FALSE
           /\ mediaRecorderRef = Null
           /\ recordedChunks = <<>>
           /\ instrumentalSourceRef = Null
           /\ instrumentalGainRef = Null
           /\ vocalSourceRef = Null
           /\ vocalGainRef = Null
           /\ sources = [s \in SourceIds |-> Free]
           /\ plays = <<>>
           /\ recs = <<>>
           /\ animationFrameIdRef = Null
           /\ frames = {}
           /\ lastFrameId = 0
           /\ objectUrls = {}

\* the render after a step and the save effect that follows it
Render(newFields, item, alert, error) ==
    /\ storage' = SaveEffect(Fields, newFields, item)
    /\ fx' = Fx(alert, error)

\* a step that changes no dependency of the save effect
NoRender(alert, error) ==
    /\ storage' = storage
    /\ fx' = Fx(alert, error)

\* ------------------------------------------------------------ handlePlay
\* lines 128-132: the guard, the audio context, and the await of resume()
HandlePlay(ps, kind, playing, beat, url, iVol, vVol, isRec) ==
    IF playing THEN ps ELSE Append(ps, NewPlay(kind, beat, url, iVol, vVol, isRec))

\* the Play button (line 340)
PlayEnabled == ~isRecording /\ ~isPlaying /\ (selectedBeatUrl # Null \/ recordedAudioUrl # Null)

ClickPlay ==
    /\ PlayEnabled
    /\ Len(plays) < MaxPlays
    /\ Len(plays) + Len(recs) < MaxCalls
    /\ plays' = HandlePlay(plays, "primary", isPlaying, selectedBeatUrl, recordedAudioUrl,
                           instrumentalVolume, vocalVolume, isRecording)
    /\ isInitialized' = TRUE
    /\ NoRender(FALSE, "none")
    /\ UNCHANGED <<sessionVars, isRecording, isPlaying, recordedAudioUrl, isGenerating,
                   mediaRecorderRef, recordedChunks, refVars, sources, recs,
                   loadPc, objectUrls>>

\* what a segment of invocation p leaves behind
ApplyGraph(g, p) ==
    /\ sources' = Collect(g.sources, g.iRef, g.vRef)
    /\ instrumentalSourceRef' = g.iRef
    /\ instrumentalGainRef' = g.iGain
    /\ vocalSourceRef' = g.vRef
    /\ vocalGainRef' = g.vGain
    /\ isPlaying' = g.isPlaying
    /\ plays' = [plays EXCEPT ![p] =
                    IF g.error # "none" \/ g.pc = "done" THEN SettledPlay
                    ELSE [@ EXCEPT !.pc = g.pc]]
    /\ NoRender(FALSE, g.error)
    /\ UNCHANGED <<sessionVars, isRecording, recordedAudioUrl, isGenerating, isInitialized,
                   mediaRecorderRef, recordedChunks, recs, loadPc, objectUrls>>

\* resume() resolved (lines 132-141, and on to 179 when nothing is to load)
PlayResumed(p) ==
    /\ plays[p].pc = "resume"
    /\ ApplyGraph(AfterResume(Graph, p, plays[p]), p)

\* mutant: the failed decoding is caught and what is ready is started
LoadFailedSwallowed(p) == [StartGraph(Graph, p, plays[p]) EXCEPT !.error = "decode"]

\* loadAudio (lines 74-79) rejects when the fetch or the decoding fails
LoadFailed(p) == [Graph EXCEPT !.error = "decode"]

\* loadAudio(selectedBeatUrl) settled (lines 141-152, and on)
\* ok: fetched and decoded; dur: the duration of the decoded buffer
LoadInstrumentalDone(p, ok, dur) ==
    /\ plays[p].pc = "loadI"
    /\  ApplyGraph(IF ok THEN VocalPart(BuildInstrumental(Graph, p, plays[p], dur),
                                        p, plays[p])
                   ELSE LoadFailed(p), p)

\* loadAudio(recordedAudioUrl) settled (lines 155-179)
LoadVocalDone(p, ok, dur) ==
    /\ plays[p].pc = "loadV"
    /\  ApplyGraph(IF ok THEN StartGraph(BuildVocal(Graph, p, plays[p], dur),
                                         p, plays[p])
                   ELSE LoadFailed(p), p)

\* --------------------------------------------------------- source events
\* sources started together end in the order of their durations
MayEndNow(s) ==
    \A t \in SourceIds :
        (sources[t].st = "playing" /\ sources[t].startedBy = sources[s].startedBy)
            => sources[t].dur >= sources[s].dur

\* the ended event of source s: the handler of line 175, if registered on it
Ended(s) ==
    /\ sources' = Collect([sources EXCEPT ![s].st = "ended"],
                           instrumentalSourceRef, vocalSourceRef)
    /\ isPlaying' = IF sources[s].onended THEN FALSE ELSE isPlaying
    /\ NoRender(FALSE, "none")
    /\ UNCHANGED <<sessionVars, isRecording, recordedAudioUrl, isGenerating, isInitialized,
                   mediaRecorderRef, recordedChunks, refVars, plays, recs, loadPc, objectUrls>>

\* a playing source reaches the end of its buffer
SourceEnded(s) ==
    /\ sources[s].st = "playing"
    /\ MayEndNow(s)
    /\ Ended(s)

\* the ended event of a source that stop() halted
StoppedSourceEnded(s) ==
    /\ sources[s].st = "stopping"
    /\ Ended(s)

\* ------------------------------------------------------ handleRecordToggle
\* what handleStop or the toggle leaves behind in the variables it writes
ApplyCtl(c) ==
    /\ isRecording' = c.isRecording
    /\ isPlaying' = c.isPlaying
    /\ isInitialized' = c.isInitialized
    /\ recs' = c.recs
    /\ sources' = Collect(c.sources, c.iRef, c.vRef)

\* the Record button (line 336), never disabled: lines 86-93
ClickRecord ==
    /\ IF isRecording
       THEN ApplyCtl(ToggleOff(Ctl))
       ELSE /\ Len(recs) < MaxRecs
            /\ Len(plays) + Len(recs) < MaxCalls
            /\ ApplyCtl([Ctl EXCEPT !.isInitialized = TRUE, !.recs = Append(@, NewRec)])
    /\ NoRender(FALSE, "none")
    /\ UNCHANGED <<sessionVars, recordedAudioUrl, isGenerating, mediaRecorderRef,
                   recordedChunks, refVars, plays, loadPc, objectUrls>>

\* the monitoring handlePlay of line 118 runs with the closure of the click
StartsMonitor(r) == recs[r].beat # Null /\ ~recs[r].wasPlaying

\* getUserMedia resolved (lines 93-119)
MicGranted(r) ==
    /\ recs[r].pc = "asking"
    /\ StartsMonitor(r) => (Len(plays) < MaxPlays /\ Len(plays) + Len(recs) < MaxCalls)
    /\ mediaRecorderRef' = r
    /\ recordedChunks' = <<>>
    /\ recordedAudioUrl' = Null
    /\ recordedAudioBase64' = Null
    /\ recs' = [recs EXCEPT ![r] = SettledRec("recording", TRUE)]
    /\ isRecording' = TRUE
    /\ plays' = IF recs[r].beat # Null
                THEN HandlePlay(plays, "monitor", recs[r].wasPlaying, recs[r].beat,
                                recs[r].url, recs[r].iVol, recs[r].vVol, FALSE)
                ELSE plays
    /\ Render([Fields EXCEPT !.recordedAudioBase64 = Null], storage, FALSE, "none")
    /\ UNCHANGED <<selectedBeatUrl, mixVars, lyricVars, isPlaying, isInitialized,
                   refVars, sources, loadPc, objectUrls>>

\* mutant: the previous capture is cleared before the permission is awaited
MicDeniedCleared(r) ==
    /\ recs[r].pc = "asking"
    /\ recs' = [recs EXCEPT ![r] = SettledRec("done", FALSE)]
    /\ recordedChunks' = <<>>
    /\ recordedAudioUrl' = Null
    /\ recordedAudioBase64' = Null
    /\ Render([Fields EXCEPT !.recordedAudioBase64 = Null], storage, TRUE, "none")
    /\ UNCHANGED <<selectedBeatUrl, mixVars, lyricVars, isRecording, isPlaying,
                   isInitialized, mediaRecorderRef, refVars, sources, plays,
                   loadPc, objectUrls>>

\* getUserMedia rejected (lines 121-124)
MicDenied(r) ==
    /\ recs[r].pc = "asking"
    /\ recs' = [recs EXCEPT ![r] = SettledRec("done", FALSE)]
    /\ NoRender(TRUE, "none")
    /\ UNCHANGED <<sessionVars, isRecording, isPlaying, recordedAudioUrl, isGenerating,
                   isInitialized, mediaRecorderRef, recordedChunks, refVars, sources,
                   plays, loadPc, objectUrls>>

\* the recorder's dataavailable and stop events (lines 96-105): the chunk is kept
\* when it is not empty, the blob of all chunks gets its object URL
RecorderStopped(r) ==
    /\ recs[r].pc = "stopping"
    /\ \E hasData \in BOOLEAN :
        recordedChunks' = IF hasData THEN Append(recordedChunks, r) ELSE recordedChunks
    /\ recordedAudioUrl' = r
    /\ objectUrls' = objectUrls \cup {r}
    /\ recs' = [recs EXCEPT ![r].pc = "encoding"]
    /\ NoRender(FALSE, "none")
    /\ UNCHANGED <<sessionVars, isRecording, isPlaying, isGenerating, isInitialized,
                   mediaRecorderRef, refVars, sources, plays, loadPc>>

\* blobToBase64 settled (lines 13-20, 105-108)
EncodeDone(r) ==
    /\ recs[r].pc = "encoding"
    /\ \E ok \in BOOLEAN :
        IF ok
        THEN /\ recordedAudioBase64' = r
             /\ recordedChunks' = <<>>
             /\ recs' = [recs EXCEPT ![r] = SettledRec("done", FALSE)]
             /\ Render([Fields EXCEPT !.recordedAudioBase64 = r], storage, FALSE, "none")
        ELSE /\ recs' = [recs EXCEPT ![r].pc = "failed"]
             /\ NoRender(FALSE, "encode")
             /\ UNCHANGED <<recordedAudioBase64, recordedChunks>>
    /\ UNCHANGED <<selectedBeatUrl, mixVars, lyricVars, isRecording, isPlaying,
                   recordedAudioUrl, isInitialized, mediaRecorderRef, refVars, sources,
                   plays, loadPc, objectUrls>>

\* ------------------------------------------------------------------ mixer
\* mutant: a volume change restarts the source behind the gain node
VolumeEffectsRestart(srcs, iv, vv) ==
    LET s1 == IF iv # instrumentalVolume /\ instrumentalGainRef # Null
              THEN [srcs EXCEPT ![instrumentalGainRef].gain = iv,
                                ![instrumentalGainRef].st = "stopping"] ELSE srcs
    IN IF vv # vocalVolume /\ vocalGainRef # Null
       THEN [s1 EXCEPT ![vocalGainRef].gain = vv, ![vocalGainRef].st = "stopping"]
       ELSE s1

\* the volume effects (lines 205-215), run after a render that changed a volume
VolumeEffects(srcs, iv, vv) ==
    LET s1 == IF iv # instrumentalVolume /\ instrumentalGainRef # Null
              THEN [srcs EXCEPT ![instrumentalGainRef].gain = iv] ELSE srcs
    IN IF vv # vocalVolume /\ vocalGainRef # Null
       THEN [s1 EXCEPT ![vocalGainRef].gain = vv] ELSE s1

\* the instrumental slider (lines 387-394)
SetInstrumentalVolume(v) ==
    /\ v # instrumentalVolume
    /\ instrumentalVolume' = v
    /\ sources' = VolumeEffects(sources, v, vocalVolume)
    /\ Render([Fields EXCEPT !.instrumentalVolume = v], storage, FALSE, "none")
    /\ UNCHANGED <<selectedBeatUrl, recordedAudioBase64, vocalVolume, lyricVars,
                   isRecording, isPlaying, recordedAudioUrl, isInitialized,
                   mediaRecorderRef, recordedChunks, refVars, plays, recs, loadPc, objectUrls>>

\* the vocal slider (lines 399-406)
SetVocalVolume(v) ==
    /\ v # vocalVolume
    /\ vocalVolume' = v
    /\ sources' = VolumeEffects(sources, instrumentalVolume, v)
    /\ Render([Fields EXCEPT !.vocalVolume = v], storage, FALSE, "none")
    /\ UNCHANGED <<selectedBeatUrl, recordedAudioBase64, instrumentalVolume, lyricVars,
                   isRecording, isPlaying, recordedAudioUrl, isInitialized,
                   mediaRecorderRef, recordedChunks, refVars, plays, recs, loadPc, objectUrls>>

\* ------------------------------------------------- Stop, Load, New buttons
\* the Stop button (line 343)
StopEnabled == isPlaying \/ isRecording

ClickStop ==
    /\ StopEnabled
    /\ ApplyCtl(HandleStop(Ctl))
    /\ NoRender(FALSE, IF HandleStop(Ctl).threw THEN "state" ELSE "none")
    /\ UNCHANGED <<sessionVars, recordedAudioUrl, isGenerating, mediaRecorderRef,
                   recordedChunks, refVars, plays, loadPc, objectUrls>>

\* a Load button of the browser panel (line 355): handleSelectBeat (lines 81-84)
ClickLoadBeat(url) ==
    /\ ~isRecording
    /\ LET c == HandleStop(Ctl)
           beat == IF c.threw THEN selectedBeatUrl ELSE url
       IN /\ ApplyCtl(c)
          /\ selectedBeatUrl' = beat
          /\ Render([Fields EXCEPT !.selectedBeatUrl = beat], storage, FALSE,
                    IF c.threw THEN "state" ELSE "none")
    /\ UNCHANGED <<recordedAudioBase64, mixVars, lyricVars, recordedAudioUrl,
                   mediaRecorderRef, recordedChunks, refVars, plays, loadPc, objectUrls>>

\* the New button (line 331): handleNewProject (lines 191-203)
\* confirmed: the answer to window.confirm
ClickNew(confirmed) ==
        LET c == HandleStop(Ctl)
        IN IF confirmed /\ ~c.threw
           THEN /\ ApplyCtl([c EXCEPT !.sources =
                              VolumeEffects(@, DefaultInstrumentalVolume,
                                            DefaultVocalVolume)])
                /\ selectedBeatUrl' = Null
                /\ recordedAudioUrl' = Null
                /\ recordedAudioBase64' = Null
                /\ instrumentalVolume' = DefaultInstrumentalVolume
                /\ vocalVolume' = DefaultVocalVolume
                /\ lyricTopic' = ""
                /\ generatedLyrics' = ""
                /\ Render(ProjectState(Null, DefaultInstrumentalVolume, DefaultVocalVolume,
                                       Null, "", ""), NoItem, FALSE, "none")
                /\ UNCHANGED <<isGenerating, mediaRecorderRef, recordedChunks, refVars,
                               plays, loadPc, objectUrls>>
           ELSE /\ ApplyCtl(IF confirmed THEN c ELSE Ctl)
                /\ NoRender(FALSE, IF confirmed THEN "state" ELSE "none")
                /\ UNCHANGED <<sessionVars, recordedAudioUrl, isGenerating,
                               mediaRecorderRef, recordedChunks, refVars, plays,
                               loadPc, objectUrls>>

\* --------------------------------------------------------- lyric assistant
audioVars == <<isRecording, isPlaying, recordedAudioUrl, isInitialized, mediaRecorderRef,
               recordedChunks, refVars, sources, plays, recs, loadPc, objectUrls>>

\* lyricTopic.trim() is empty
Blank(topic) == topic \in {"", " "}

\* the topic input (lines 419-425), disabled while generating
SetLyricTopic(topic) ==
    /\ ~isGenerating
    /\ topic # lyricTopic
    /\ lyricTopic' = topic
    /\ Render([Fields EXCEPT !.lyricTopic = topic], storage, FALSE, "none")
    /\ UNCHANGED <<selectedBeatUrl, recordedAudioBase64, mixVars, generatedLyrics,
                   isGenerating, audioVars>>

\* the Generate button (line 426): handleGenerateLyrics up to its await (256-268)
ClickGenerate ==
    /\ ~isGenerating
    /\ IF Blank(lyricTopic)
       THEN /\ NoRender(TRUE, "none")
            /\ UNCHANGED <<generatedLyrics, isGenerating>>
       ELSE /\ isGenerating' = TRUE
            /\ generatedLyrics' = ""
            /\ Render([Fields EXCEPT !.generatedLyrics = ""], storage, FALSE, "none")
    /\ UNCHANGED <<selectedBeatUrl, recordedAudioBase64, mixVars, lyricTopic, audioVars>>

\* generateContent settled (lines 269-275)
GenerateDone ==
    /\ isGenerating
    /\ \E ok \in BOOLEAN :
        LET text == IF ok THEN Verse ELSE Sorry
        IN /\ generatedLyrics' = text
           /\ Render([Fields EXCEPT !.generatedLyrics = text], storage, FALSE, "none")
    /\ isGenerating' = FALSE
    /\ UNCHANGED <<selectedBeatUrl, recordedAudioBase64, mixVars, lyricTopic, audioVars>>

\* ------------------------------------------------------------ loadProject
\* base64ToBlobUrl settled (lines 22-26, 247-248)
LoadUrlDone ==
    /\ loadPc = "url"
    /\ loadPc' = "done"
    /\ \E ok \in BOOLEAN :
        /\ recordedAudioUrl' = IF ok THEN PrevCapture ELSE recordedAudioUrl
        /\ objectUrls' = IF ok THEN objectUrls \cup {PrevCapture} ELSE objectUrls
        /\ NoRender(FALSE, IF ok THEN "none" ELSE "fetch")
    /\ UNCHANGED <<sessionVars, isRecording, isPlaying, isGenerating, isInitialized,
                   mediaRecorderRef, recordedChunks, refVars, sources, plays, recs>>

\* -------------------------------------------------------------- visualizer
Visualizer == [ref |-> animationFrameIdRef, frames |-> frames, last |-> lastFrameId]

\* animationFrameIdRef.current = requestAnimationFrame(drawVisualizer)
RequestFrame(v) ==
    [ref |-> v.last + 1, frames |-> v.frames \cup {v.last + 1}, last |-> v.last + 1]

\* if (animationFrameIdRef.current) cancelAnimationFrame(animationFrameIdRef.current)
CancelFrame(v) == IF v.ref # Null THEN [v EXCEPT !.frames = @ \ {v.ref}] ELSE v

\* mutant: drawVisualizer schedules the next frame without keeping its id
DrawVisualizerKeepsRef(v, ready) ==
    IF ready THEN [RequestFrame(v) EXCEPT !.ref = v.ref] ELSE v

\* drawVisualizer up to line 281; ready: the analyser and the canvas exist
DrawVisualizer(v, ready) == IF ready THEN RequestFrame(v) ELSE v

\* the visualizer effect after a render that changed isPlaying: the cleanup of
\* the previous run (lines 318-322), then the body (lines 307-317)
VisualizerEffect(v, playing) ==
    LET c == CancelFrame(v)
    IN IF playing THEN RequestFrame(c) ELSE CancelFrame(c)

ApplyVisualizer(v) ==
    /\ v.last <= MaxFrames
    /\ animationFrameIdRef' = v.ref
    /\ frames' = v.frames
    /\ lastFrameId' = v.last

\* the browser runs the frame callback id: drawVisualizer
FrameFired(id) ==
    /\ id \in frames
    /\ ApplyVisualizer(DrawVisualizer([Visualizer EXCEPT !.frames = @ \ {id}],
                                       isInitialized))
    /\ UNCHANGED appVars

\* ----------------------------------------------------------- specifications
\* a step of a specification that keeps no history of the user's actions and
\* leaves the visualizer out
Quiet(A) == A /\ UNCHANGED since /\ UNCHANGED vizVars

\* a user action recorded as the last one, the visualizer left out
After(A, mark) == A /\ since' = mark /\ UNCHANGED vizVars

\* a step followed by the visualizer effect of its render
Drawn(A) ==
    /\ A
    /\ UNCHANGED since
    /\ ApplyVisualizer(IF isPlaying' # isPlaying
                       THEN VisualizerEffect(Visualizer, isPlaying')
                       ELSE Visualizer)

\* the transport and the audio pipeline; the mixer and the lyric assistant at rest,
\* and every decoded buffer of the same duration
Next ==
    \/ Quiet(ClickPlay)
    \/ Quiet(ClickRecord)
    \/ Quiet(ClickStop)
    \/ \E url \in Beats : Quiet(ClickLoadBeat(url))
    \/ \E confirmed \in BOOLEAN : Quiet(ClickNew(confirmed))
    \/ \E p \in 1..Len(plays) : Quiet(PlayResumed(p))
    \/ \E p \in 1..Len(plays), ok \in BOOLEAN, dur \in {1} :
        Quiet(LoadInstrumentalDone(p, ok, dur))
    \/ \E p \in 1..Len(plays), ok \in BOOLEAN, dur \in {1} :
        Quiet(LoadVocalDone(p, ok, dur))
    \/ \E s \in SourceIds : Quiet(SourceEnded(s))
    \/ \E s \in SourceIds : Quiet(StoppedSourceEnded(s))
    \/ \E r \in 1..Len(recs) : Quiet(MicGranted(r))
    \/ \E r \in 1..Len(recs) : Quiet(MicDenied(r))
    \/ \E r \in 1..Len(recs) : Quiet(RecorderStopped(r))
    \/ \E r \in 1..Len(recs) : Quiet(EncodeDone(r))
    \/ Quiet(LoadUrlDone)

Spec == Init /\ [][Next]_vars

\* playback alone: no recording is made in this page session
NextPlay ==
    \/ Quiet(ClickPlay)
    \/ Quiet(ClickStop)
    \/ \E url \in Beats : Quiet(ClickLoadBeat(url))
    \/ \E confirmed \in BOOLEAN : Quiet(ClickNew(confirmed))
    \/ \E p \in 1..Len(plays) : Quiet(PlayResumed(p))
    \/ \E p \in 1..Len(plays), ok \in BOOLEAN, dur \in Durations :
        Quiet(LoadInstrumentalDone(p, ok, dur))
    \/ \E p \in 1..Len(plays), ok \in BOOLEAN, dur \in Durations :
        Quiet(LoadVocalDone(p, ok, dur))
    \/ \E s \in SourceIds : Quiet(SourceEnded(s))
    \/ \E s \in SourceIds : Quiet(StoppedSourceEnded(s))
    \/ Quiet(LoadUrlDone)

SpecPlay == Init /\ [][NextPlay]_vars

\* recording and its monitoring playback: the Play button is never pressed
NextRecord ==
    \/ Quiet(ClickRecord)
    \/ Quiet(ClickStop)
    \/ \E url \in Beats : Quiet(ClickLoadBeat(url))
    \/ \E confirmed \in BOOLEAN : Quiet(ClickNew(confirmed))
    \/ \E p \in 1..Len(plays) : Quiet(PlayResumed(p))
    \/ \E p \in 1..Len(plays), ok \in BOOLEAN, dur \in Durations :
        Quiet(LoadInstrumentalDone(p, ok, dur))
    \/ \E p \in 1..Len(plays), ok \in BOOLEAN, dur \in Durations :
        Quiet(LoadVocalDone(p, ok, dur))
    \/ \E s \in SourceIds : Quiet(SourceEnded(s))
    \/ \E s \in SourceIds : Quiet(StoppedSourceEnded(s))
    \/ \E r \in 1..Len(recs) : Quiet(MicGranted(r))
    \/ \E r \in 1..Len(recs) : Quiet(MicDenied(r))
    \/ \E r \in 1..Len(recs) : Quiet(RecorderStopped(r))
    \/ \E r \in 1..Len(recs) : Quiet(EncodeDone(r))
    \/ Quiet(LoadUrlDone)

SpecRecord == Init /\ [][NextRecord]_vars

\* the same, with the history of the last user action
StopRan == ~HandleStop(Ctl).threw

NextSince ==
    \/ After(ClickRecord, "other")
    \/ After(ClickStop, IF StopRan THEN "stop" ELSE "other")
    \/ \E url \in Beats : After(ClickLoadBeat(url), "other")
    \/ \E confirmed \in BOOLEAN :
        After(ClickNew(confirmed), IF confirmed /\ StopRan THEN "new" ELSE "other")
    \/ \E p \in 1..Len(plays) : Quiet(PlayResumed(p))
    \/ \E p \in 1..Len(plays), ok \in BOOLEAN, dur \in Durations :
        Quiet(LoadInstrumentalDone(p, ok, dur))
    \/ \E p \in 1..Len(plays), ok \in BOOLEAN, dur \in Durations :
        Quiet(LoadVocalDone(p, ok, dur))
    \/ \E s \in SourceIds : Quiet(SourceEnded(s))
    \/ \E s \in SourceIds : Quiet(StoppedSourceEnded(s))
    \/ \E r \in 1..Len(recs) : Quiet(MicGranted(r))
    \/ \E r \in 1..Len(recs) : Quiet(MicDenied(r))
    \/ \E r \in 1..Len(recs) : Quiet(RecorderStopped(r))
    \/ \E r \in 1..Len(recs) : Quiet(EncodeDone(r))
    \/ Quiet(LoadUrlDone)

SpecSince == Init /\ [][NextSince]_vars

\* the session and its stored record: one take, the sliders between the default
\* and 0, one lyric topic, and no playback running; since is "toggle" after a
\* Record click that ended the take
NextSession ==
    \/ After(ClickRecord /\ (isRecording \/ recs = <<>>),
             IF isRecording THEN "toggle" ELSE "other")
    \/ After(ClickStop, IF StopRan THEN "stop" ELSE "other")
    \/ \E url \in Beats : After(ClickLoadBeat(url), "other")
    \/ \E confirmed \in BOOLEAN :
        After(ClickNew(confirmed), IF confirmed /\ StopRan THEN "new" ELSE "other")
    \/ \E r \in 1..Len(recs) : Quiet(MicGranted(r))
    \/ \E r \in 1..Len(recs) : Quiet(MicDenied(r))
    \/ \E r \in 1..Len(recs) : Quiet(RecorderStopped(r))
    \/ \E r \in 1..Len(recs) : Quiet(EncodeDone(r))
    \/ Quiet(LoadUrlDone)
    \/ \E v \in {0, DefaultInstrumentalVolume} :
        After(SetInstrumentalVolume(v), "other")
    \/ \E v \in {0, DefaultVocalVolume} : After(SetVocalVolume(v), "other")
    \/ \E topic \in Topics : After(SetLyricTopic(topic), "other")
    \/ After(ClickGenerate, "other")
    \/ Quiet(GenerateDone)

SpecSession == Init /\ [][NextSession]_vars

\* playback with the mixer and the lyric assistant: no recording, no New; every
\* decoded buffer of the same duration; since is "inst" / "voc" after a move of
\* the instrumental / vocal slider
NextMix ==
    \/ After(ClickPlay, "other")
    \/ After(ClickStop, "other")
    \/ \E url \in Beats : After(ClickLoadBeat(url), "other")
    \/ \E p \in 1..Len(plays) : Quiet(PlayResumed(p))
    \/ \E p \in 1..Len(plays), ok \in BOOLEAN, dur \in {1} :
        Quiet(LoadInstrumentalDone(p, ok, dur))
    \/ \E p \in 1..Len(plays), ok \in BOOLEAN, dur \in {1} :
        Quiet(LoadVocalDone(p, ok, dur))
    \/ \E s \in SourceIds : Quiet(SourceEnded(s))
    \/ \E s \in SourceIds : Quiet(StoppedSourceEnded(s))
    \/ Quiet(LoadUrlDone)
    \/ \E v \in {0, DefaultInstrumentalVolume} :
        After(SetInstrumentalVolume(v), "inst")
    \/ \E v \in {0, DefaultVocalVolume} : After(SetVocalVolume(v), "voc")
    \/ \E topic \in Topics : After(SetLyricTopic(topic), "other")
    \/ After(ClickGenerate, "other")
    \/ Quiet(GenerateDone)

SpecMix == Init /\ [][NextMix]_vars

\* playback with the visualizer; every decoded buffer of the same duration
NextViz ==
    \/ Drawn(ClickPlay)
    \/ Drawn(ClickStop)
    \/ \E url \in Beats : Drawn(ClickLoadBeat(url))
    \/ \E confirmed \in BOOLEAN : Drawn(ClickNew(confirmed))
    \/ \E p \in 1..Len(plays) : Drawn(PlayResumed(p))
    \/ \E p \in 1..Len(plays), ok \in BOOLEAN, dur \in {1} :
        Drawn(LoadInstrumentalDone(p, ok, dur))
    \/ \E p \in 1..Len(plays), ok \in BOOLEAN, dur \in {1} :
        Drawn(LoadVocalDone(p, ok, dur))
    \/ \E s \in SourceIds : Drawn(SourceEnded(s))
    \/ \E s \in SourceIds : Drawn(StoppedSourceEnded(s))
    \/ Drawn(LoadUrlDone)
    \/ \E id \in 1..MaxFrames : FrameFired(id)

SpecViz == Init /\ [][NextViz]_vars

\* ------------------------------------------------------------------ claims
Playing(track) == {s \in SourceIds : sources[s].st = "playing" /\ sources[s].track = track}

AnyPlaying == \E s \in SourceIds : sources[s].st = "playing"

\* C1: at most one instrumental source and at most one vocal source is started and
\* not ended, whatever the interleaving of the user's actions with the completions.
OneSourcePerTrack ==
    /\ Cardinality(Playing("i")) <= 1
    /\ Cardinality(Playing("v")) <= 1

\* C2: isRecording is never true while a source started by a Play click is playing.
RecordingExcludesPrimaryPlayback ==
    ~(isRecording /\ \E s \in SourceIds :
                        sources[s].st = "playing" /\ sources[s].kind = "primary")

\* C3: a handlePlay invocation that is still awaiting a decoding has started no
\* source, and the step in which a decoding fails starts no source and leaves
\* isPlaying as it was (all-or-nothing play).
PendingPlayStartedNothing ==
    \A s \in SourceIds :
        sources[s].st = "playing" => plays[sources[s].startedBy].pc = "done"

DecodeFailureStartsNothing ==
    fx'.error = "decode" =>
        /\ \A s \in SourceIds : sources'[s].st = "playing" => sources[s].st = "playing"
        /\ isPlaying' = isPlaying

AllOrNothingPlay == []PendingPlayStartedNothing /\ [][DecodeFailureStartsNothing]_vars

\* C3 witness: the decoding of the vocal has just failed in an invocation whose
\* instrumental was decoded and built, and nothing plays
VocalDecodeFailed ==
    /\ fx.error = "decode"
    /\ instrumentalSourceRef # Null
    /\ sources[instrumentalSourceRef].st = "created"
    /\ ~AnyPlaying
    /\ ~isPlaying

\* Idle: neither recording nor playing, and no source sounding
Idle == ~isRecording /\ ~isPlaying /\ ~AnyPlaying

\* C4: a Stop click leaves isPlaying false and no source playing, and until the
\* next user action no completion starts a source or sets isPlaying again (the
\* click itself has set isRecording false: ToggleOff).
StopLeavesIdle == since = "stop" => (~isPlaying /\ ~AnyPlaying)

\* what a call of handleStop can be observed to change
Observable(c) ==
    [isRecording |-> c.isRecording, isPlaying |-> c.isPlaying,
     playing |-> {s \in SourceIds : c.sources[s].st = "playing"},
     recording |-> {r \in 1..Len(c.recs) : c.recs[r].pc = "recording"}]

\* C5: a second handleStop right after a first changes nothing observable, and
\* handleStop with no active session changes nothing and raises no error, also
\* when the audio context was never created or a source was built and never started.
IdempotentStop ==
    LET once == HandleStop(Ctl)
        twice == HandleStop([once EXCEPT !.threw = FALSE])
    IN /\ Observable(twice) = Observable(once)
       /\ Idle => (~once.threw /\ Observable(once) = Observable(Ctl))

\* C8: after a confirmed New the controller is Idle, every session parameter has
\* its default and no record is stored, and this stays so until the next user
\* action, whatever callback pending at the time of the click runs.
NewLeavesDefaults ==
    since = "new" =>
        /\ Idle
        /\ Fields = DefaultFields
        /\ recordedAudioUrl = Null
        /\ storage = NoItem

\* C9: at most one recorder is started and not yet stopped (and holds a live
\* microphone stream), whatever the interleaving with the permission prompts.
OneRecordingSession ==
    Cardinality({r \in 1..Len(recs) : recs[r].pc = "recording" /\ recs[r].stream}) <= 1

\* C6: the record the save effect has written for the session loads back to that
\* session, field for field (the volumes anywhere in [0,1], 0 included).
RoundTrip ==
    (HasContent(Fields) /\ storage = Stringify(Fields)) => LoadProject(storage) = Fields

\* C7: the stored record is written only in a state where an instrumental is
\* selected or a recording is completed: a step that changes the stored record
\* either removes it or ends in such a state. (So a session without content that
\* only moves the sliders, edits the topic and generates lyrics writes nothing.)
WritesOnlyWithContent ==
    storage' # storage => (storage' = NoItem \/ HasContent(Fields'))

PersistenceGating == [][WritesOnlyWithContent]_vars

\* C7 witness: a session without content whose sliders and lyrics are not the
\* defaults, and still no stored record
UntouchedSessionUnsaved ==
    /\ ~HasContent(Fields)
    /\ storage = NoItem
    /\ instrumentalVolume # DefaultInstrumentalVolume
    /\ vocalVolume # DefaultVocalVolume
    /\ lyricTopic # ""
    /\ generatedLyrics # ""

\* C10: when getUserMedia is rejected the record transition is aborted: isRecording,
\* the recorders, the recorded capture, its URL and the stored record are as before,
\* and an alert is shown.
DenialAborts ==
    \A r \in 1..Len(recs) :
        (recs[r].pc = "asking" /\ recs'[r].pc = "done") =>
            /\ fx'.alert
            /\ isRecording' = isRecording
            /\ mediaRecorderRef' = mediaRecorderRef
            /\ \A q \in 1..Len(recs) : recs'[q].pc = "recording" => recs[q].pc = "recording"
            /\ ~recs'[r].stream
            /\ recordedAudioUrl' = recordedAudioUrl
            /\ recordedAudioBase64' = recordedAudioBase64
            /\ storage' = storage

PermissionDeniedAborts == [][DenialAborts]_vars

\* C10 witness: the alert of a denial is up, nothing records, and the capture made
\* before is still there, playable and stored
DeniedWithCaptureKept ==
    /\ fx.alert
    /\ ~isRecording
    /\ \A r \in 1..Len(recs) : recs[r].pc = "done"
    /\ recs # <<>>
    /\ recordedAudioUrl # Null
    /\ recordedAudioBase64 # Null
    /\ storage.kind = "doc"

\* C11: when Record is toggled off or Stop is pressed while recording, isRecording
\* is false, and the step in which the encoding of that take completes leaves a
\* playable URL, the encoded capture in the session, and a stored record that is
\* the session with that capture, with or without a selected beat (no user action
\* in between).
TakeEnded == since \in {"stop", "toggle"}

CaptureFinalized ==
    \A r \in 1..Len(recs) :
        (TakeEnded /\ recs[r].pc = "encoding" /\ recs'[r].pc = "done") =>
            /\ recordedAudioUrl' # Null
            /\ recordedAudioBase64' = r
            /\ storage' = Stringify(Fields')
            /\ Parse(storage').recordedAudioBase64 = r

SameButGain(a, b) == [a EXCEPT !.gain = 0] = [b EXCEPT !.gain = 0]

MixerLyricsFrame ==
    (mixVars' # mixVars \/ lyricVars' # lyricVars) =>
        /\ isRecording' = isRecording
        /\ isPlaying' = isPlaying
        /\ selectedBeatUrl' = selectedBeatUrl
        /\ recordedAudioUrl' = recordedAudioUrl
        /\ recordedAudioBase64' = recordedAudioBase64
        /\ recs' = recs
        /\ plays' = plays
        /\ refVars' = refVars
        /\ \A s \in SourceIds :
            /\ SameButGain(sources'[s], sources[s])
            /\ sources'[s].gain # sources[s].gain =>
                    s \in {instrumentalGainRef, vocalGainRef}

MixerLyricsKeepTransport == [][MixerLyricsFrame]_vars

\* C12 witness: the instrumental slider was moved to 0 after the Play click, and
\* the instrumental source plays on with its gain at 0
GainMovedWhilePlaying ==
    /\ since = "inst"
    /\ isPlaying
    /\ instrumentalVolume = 0
    /\ instrumentalSourceRef # Null
    /\ instrumentalGainRef = instrumentalSourceRef
    /\ sources[instrumentalSourceRef].st = "playing"
    /\ sources[instrumentalSourceRef].gain = 0

\* C13: loading a missing or an unparseable record gives the defaults, and when the
\* recorded-audio string of a parseable record cannot be decoded (base64ToBlobUrl
\* rejects) the session also has the defaults in every field, no playable URL, and
\* the controller is Idle.
CorruptLoadGivesDefaults ==
    /\ LoadProject(NoItem) = DefaultFields
    /\ LoadProject(CorruptItem) = DefaultFields
    /\ fx.error = "fetch" =>
        /\ Fields = DefaultFields
        /\ recordedAudioUrl = Null
        /\ Idle

\* C14: a failed lyric generation leaves the lyrics of the session, and of the
\* stored record, as they were before the request: the failure message never
\* becomes the generated lyrics (no session starts with it as its lyrics).
FailureKeepsLyrics ==
    /\ generatedLyrics # Sorry
    /\ storage.kind = "doc" => Parse(storage).generatedLyrics # Sorry

\* C15: every source that plays was started by the handlePlay invocation that
\* constructed it: no invocation starts a source another invocation built.
StartedByItsMaker ==
    \A s \in SourceIds :
        sources[s].st = "playing" => sources[s].startedBy = sources[s].by

\* C16: in a quiescent state (no recorder is asking, recording, stopping or
\* encoding) with isRecording false, no microphone stream is live: every stream
\* was released, also when the encoding in the stop callback failed.
RecordersQuiescent == \A r \in 1..Len(recs) : recs[r].pc \in {"done", "failed"}

MicrophoneReleased ==
    (~isRecording /\ RecordersQuiescent) => \A r \in 1..Len(recs) : ~recs[r].stream

\* C17: while isPlaying is false (the render of the stop and its effect done) no
\* frame callback is scheduled, so none runs afterwards; at most one callback is
\* scheduled at any time, and it is the one whose id animationFrameIdRef holds,
\* so that the callback cancelled on stop is the most recently scheduled one.
VisualizerFollowsPlayback ==
    /\ ~isPlaying => frames = {}
    /\ Cardinality(frames) <= 1
    /\ frames \subseteq {animationFrameIdRef}

\* C17 witness: playback stopped after frames had run, and nothing is scheduled
StoppedAfterFrames ==
    /\ ~isPlaying
    /\ animationFrameIdRef >= 2
    /\ frames = {}

\* C18: at most one object URL of a recorded capture is live at any time, and it
\* is the one recordedAudioUrl holds: a URL that was replaced or cleared has been
\* released.
OneLiveCaptureUrl ==
    /\ Cardinality(objectUrls) <= 1
    /\ objectUrls \subseteq {recordedAudioUrl}

\* C19: of the sources a play starts together, the completion handler is on the
\* longer one, on the instrumental when the durations are equal, on the only one
\* when one track is present, and isPlaying becomes true; the natural end of a
\* source whose longer (or, for the vocal, equally long) partner still plays leaves
\* isPlaying as it was, and the natural end of the source with the handler sets
\* isPlaying false.
Outlasts(a, b) == IF a.track = "v" THEN a.dur > b.dur ELSE a.dur >= b.dur

StartedNow == {s \in SourceIds : sources[s].st # "playing" /\ sources'[s].st = "playing"}

HandlerOnLongest ==
    (StartedNow # {} /\ fx'.error = "none") =>
        /\ isPlaying'
        /\ \A s \in StartedNow :
            sources'[s].onended <=>
                \A t \in StartedNow \ {s} : Outlasts(sources'[s], sources'[t])

EndedNow == {s \in SourceIds : sources[s].st = "playing"
                                 /\ sources'[s].st \notin {"playing", "stopping"}}

Partners(s) == {t \in SourceIds \ {s} : /\ sources[t].st = "playing"
                                         /\ sources[t].startedBy = sources[s].startedBy}

LongestEndGoverns ==
    \A s \in EndedNow :
        /\ (\E t \in Partners(s) : ~Outlasts(sources[s], sources[t])) =>
                isPlaying' = isPlaying
        /\ sources[s].onended => ~isPlaying'

LongerSourceEndsPlayback == [][HandlerOnLongest /\ LongestEndGoverns]_vars

\* C19 witness: the shorter instrumental has ended, the longer vocal plays on with
\* the handler, and isPlaying is still true
ShorterEndedLongerPlays ==
    /\ isPlaying
    /\ instrumentalSourceRef # Null
    /\ vocalSourceRef # Null
    /\ sources[instrumentalSourceRef].st = "ended"
    /\ sources[vocalSourceRef].st = "playing"
    /\ sources[vocalSourceRef].onended

\* C20: isPlaying agrees with the audio graph: while the source of the current
\* graph (the one a source ref holds) that carries the completion handler is
\* started and not ended, isPlaying is true, whatever ended notifications of other
\* or earlier sources arrive.
CurrentGraph == {instrumentalSourceRef, vocalSourceRef} \ {Null}

PlayingFlagAgrees ==
    \A s \in CurrentGraph :
        (sources[s].st = "playing" /\ sources[s].onended) => isPlaying

\* C21: whenever a source the refs hold is playing, the value of its gain node is
\* the current volume of its track, also when the slider was moved after the play
\* was invoked and before the graph was built.
VolumeOf(track) == IF track = "i" THEN instrumentalVolume ELSE vocalVolume

GainIsVolume ==
    \A s \in {instrumentalSourceRef, vocalSourceRef} \ {Null} :
        sources[s].st = "playing" => sources[s].gain = VolumeOf(sources[s].track)

====
